---- MODULE Spec2Model ----
(***************************************************************************)
(* Model of the order pipeline of samples/rust/src/main.rs:                *)
(* InventoryService, PricingService and OrderService.                      *)
(*                                                                         *)
(* Money.  The f64 amounts of the source are modelled as exact integers in *)
(* units of 1/10000 dollar, so that quantity * unit_price, the tax rates   *)
(* 0.08 / 0.10 and the discount rates 0.15 / 0.10 / 0.05 / 0.0 are all     *)
(* exact.  Unit prices are whole cents (a multiple of 100 units).          *)
(*                                                                         *)
(* u32.  TLC integers are 32-bit signed, so u32::MAX itself cannot be      *)
(* written.  The saturating cast `as u32` is modelled at width CastBits:   *)
(* U32_MAX is 2^CastBits - 1.  Stock and quantities stay far below it.     *)
(***************************************************************************)
EXTENDS Integers, Sequences, FiniteSets, TLC

VARIABLES
    config,         \* OrderService.config / PricingService.config (one snapshot)
    customer,       \* the caller's Customer value passed by reference
    inventory,      \* InventoryService.inventory : HashMap<String, u32>
    log,            \* lines the Logger printed during the most recent call
    ret,            \* value returned by the most recent process_order call
    locals,         \* subtotal, tax, discount, loyalty_points, final_total of that call
    call,           \* the most recent call: operation and arguments
    prevInventory   \* the inventory map as it was when that call started

vars == <<config, customer, inventory, log, ret, locals, call, prevInventory>>

----------------------------------------------------------------------------
(* Bounds of the model *)

\* longest item list drawn for an order
MaxItems == 2

\* width at which the saturating cast to u32 is modelled
CastBits == 11

----------------------------------------------------------------------------
(* Values *)

U32_MAX == 2^CastBits - 1

\* a whole number of cents as an amount
Cents(c) == c * 100

SKUS == {"SKU-100", "SKU-101", "SKU-102", "SKU-999"}

Tiers == {"Bronze", "Silver", "Gold", "Platinum"}

\* InventoryService::new
InitialInventory ==
    [sku \in {"SKU-100", "SKU-101", "SKU-102"} |->
        CASE sku = "SKU-100" -> 10
          [] sku = "SKU-101" -> 5
          [] sku = "SKU-102" -> 2]

\* the configuration main() builds
MainConfig ==
    [region |-> "us-west-2",
     enable_discounts |-> TRUE,
     enable_loyalty_points |-> TRUE,
     max_order_items |-> 100,
     discount_threshold |-> Cents(10000)]

\* the customer main() builds
MainCustomer == [loyalty_tier |-> "Gold", loyalty_points |-> 5420]

Item(sku, quantity, cents) ==
    [sku |-> sku, quantity |-> quantity, unit_price |-> Cents(cents)]

\* items orders are drawn from: the Widget of order1, the Gizmo of order2
\* (short from the start: 3 > 2), and an item whose SKU the inventory
\* does not know
Catalog ==
    {Item("SKU-100", 2, 1999), Item("SKU-102", 3, 2999), Item("SKU-999", 1, 25000)}

RECURSIVE SeqsUpTo(_, _)
SeqsUpTo(S, n) ==
    IF n = 0 THEN {<<>>}
    ELSE LET shorter == SeqsUpTo(S, n - 1)
         IN  shorter \cup {Append(s, x) : s \in {t \in shorter : Len(t) = n - 1}, x \in S}

ItemLists == SeqsUpTo(Catalog, MaxItems)

Order(id, name, items) == [order_id |-> id, customer_name |-> name, items |-> items]

Orders ==
    {Order(id, name, items) :
        id \in {"", "ORD-001"}, name \in {"", "Alice"}, items \in ItemLists}

ValidOrders ==
    {Order("ORD-001", "Alice", items) : items \in ItemLists \ {<<>>}}

\* items the pricing specification draws from: subtotals of 89.97, 100.00
\* and 250.00 on one SKU
PricingCatalog ==
    {Item("SKU-102", 3, 2999), Item("SKU-102", 1, 10000), Item("SKU-102", 1, 25000)}

PricedOrders ==
    {Order("ORD-001", "Alice", items) :
        items \in SeqsUpTo(PricingCatalog, MaxItems) \ {<<>>}}

----------------------------------------------------------------------------
(* Logger *)

Line(level, message) == [level |-> level, message |-> message]

----------------------------------------------------------------------------
(* InventoryService *)

get_stock(inv, sku) == IF sku \in DOMAIN inv THEN inv[sku] ELSE 0

\* u32::saturating_sub
saturating_sub(a, b) == IF a >= b THEN a - b ELSE 0

\* u32 subtraction that wraps instead of saturating
wrapping_sub(a, b) == (a - b) % (U32_MAX + 1)

\* new stock of one reservation, wrapping below zero
Remaining_wrapping(current, quantity) == wrapping_sub(current, quantity)

\* new stock of one reservation
Remaining(current, quantity) == saturating_sub(current, quantity)

\* reserve that subtracts from the stock the service started with
reserve_not_cumulative(inv, sku, quantity) ==
    [s \in DOMAIN inv \cup {sku} |->
        IF s = sku THEN Remaining(get_stock(InitialInventory, sku), quantity) ELSE inv[s]]

\* the map after reserve(sku, quantity)
reserve(inv, sku, quantity) ==
    LET current == get_stock(inv, sku)
    IN  [s \in DOMAIN inv \cup {sku} |->
            IF s = sku THEN Remaining(current, quantity) ELSE inv[s]]

\* the debug line reserve(sku, quantity) prints
reserve_log(inv, sku, quantity) ==
    Line("DEBUG", <<"Reserved", quantity, sku, Remaining(get_stock(inv, sku), quantity)>>)

----------------------------------------------------------------------------
(* PricingService *)

RECURSIVE calculate_subtotal_items(_)
calculate_subtotal_items(items) ==
    IF items = <<>> THEN 0
    ELSE Head(items).quantity * Head(items).unit_price
            + calculate_subtotal_items(Tail(items))

calculate_subtotal(order) == calculate_subtotal_items(order.items)

\* tax rate in percent
tax_rate(cfg) == IF cfg.region = "us-west-2" THEN 8 ELSE 10

calculate_tax(cfg, subtotal) == (subtotal * tax_rate(cfg)) \div 100

\* discount rate in percent
discount_rate(tier) ==
    CASE tier = "Platinum" -> 15
      [] tier = "Gold" -> 10
      [] tier = "Silver" -> 5
      [] tier = "Bronze" -> 0

\* calculate_discount refusing a subtotal equal to the threshold
calculate_discount_above_only(cfg, order, cust) ==
    IF ~cfg.enable_discounts THEN 0
    ELSE LET subtotal == calculate_subtotal(order)
         IN  IF subtotal <= cfg.discount_threshold THEN 0
             ELSE (subtotal * discount_rate(cust.loyalty_tier)) \div 100

calculate_discount(cfg, order, cust) ==
    IF ~cfg.enable_discounts THEN 0
    ELSE LET subtotal == calculate_subtotal(order)
         IN  IF subtotal < cfg.discount_threshold THEN 0
             ELSE (subtotal * discount_rate(cust.loyalty_tier)) \div 100

----------------------------------------------------------------------------
(* OrderService *)

\* `x as u32` for an f64 x given in units of 1/10000: truncates toward
\* zero and saturates at 0 and u32::MAX
AsU32(x) ==
    IF x < 0 THEN 0
    ELSE IF x \div 10000 > U32_MAX THEN U32_MAX
    ELSE x \div 10000

\* loyalty points computed whatever the feature flag says
loyalty_points_unconditional(cfg, subtotal) == AsU32(subtotal * 10)

loyalty_points(cfg, subtotal) ==
    IF cfg.enable_loyalty_points THEN AsU32(subtotal * 10) ELSE 0

\* final total with the tax taken on the discounted amount
final_total_tax_after_discount(subtotal, tax, discount) ==
    IF subtotal = 0 THEN 0
    ELSE LET percent == (tax * 100) \div subtotal
         IN  (subtotal - discount) + ((subtotal - discount) * percent) \div 100

final_total(subtotal, tax, discount) == subtotal + tax - discount

\* "{:.2}": the amount rounded to whole cents, ties to even
Fmt2(x) ==
    LET q == x \div 100
        r == x % 100
    IN  IF r < 50 THEN q
        ELSE IF r > 50 THEN q + 1
        ELSE IF q % 2 = 0 THEN q ELSE q + 1

format_result(subtotal, tax, discount, points, final) ==
    <<"Processed - Subtotal: $", Fmt2(subtotal), ", Tax: $", Fmt2(tax),
      ", Discount: $", Fmt2(discount), ", Points: ", points,
      ", Final: $", Fmt2(final)>>

Ok(v) == [ok |-> TRUE, value |-> v, err |-> <<>>]

Err(message) == [ok |-> FALSE, value |-> <<>>, err |-> message]

\* validate_order without the customer name check
validate_order_no_name(cfg, order) ==
    IF order.order_id = "" THEN Err(<<"Order ID is required">>)
    ELSE IF order.items = <<>> THEN Err(<<"Order must have at least one item">>)
    ELSE IF Len(order.items) > cfg.max_order_items
        THEN Err(<<"Order exceeds max items (", cfg.max_order_items, ")">>)
    ELSE Ok(<<>>)

\* validate_order whose last message names the item count of the order
validate_order_names_count(cfg, order) ==
    IF order.order_id = "" THEN Err(<<"Order ID is required">>)
    ELSE IF order.customer_name = "" THEN Err(<<"Customer name is required">>)
    ELSE IF order.items = <<>> THEN Err(<<"Order must have at least one item">>)
    ELSE IF Len(order.items) > cfg.max_order_items
        THEN Err(<<"Order exceeds max items (", Len(order.items), ")">>)
    ELSE Ok(<<>>)

validate_order(cfg, order) ==
    IF order.order_id = "" THEN Err(<<"Order ID is required">>)
    ELSE IF order.customer_name = "" THEN Err(<<"Customer name is required">>)
    ELSE IF order.items = <<>> THEN Err(<<"Order must have at least one item">>)
    ELSE IF Len(order.items) > cfg.max_order_items
        THEN Err(<<"Order exceeds max items (", cfg.max_order_items, ")">>)
    ELSE Ok(<<>>)

\* shortfall test that also fires when the stock just suffices
LowStock_or_equal(stock, quantity) == stock <= quantity

\* the shortfall test of the inventory loop
LowStock(stock, quantity) == stock < quantity

\* inventory loop that skips the reservation of an item that is short
RECURSIVE inventory_pass_skipping(_, _)
inventory_pass_skipping(inv, items) ==
    IF items = <<>> THEN [inventory |-> inv, log |-> <<>>]
    ELSE LET item == Head(items)
             stock == get_stock(inv, item.sku)
         IN  IF LowStock(stock, item.quantity)
             THEN LET rest == inventory_pass_skipping(inv, Tail(items))
                  IN  [inventory |-> rest.inventory,
                       log |-> <<Line("WARN", <<"Low stock", item.sku, stock, item.quantity>>)>>
                                \o rest.log]
             ELSE LET rest == inventory_pass_skipping(
                                reserve(inv, item.sku, item.quantity), Tail(items))
                  IN  [inventory |-> rest.inventory,
                       log |-> <<reserve_log(inv, item.sku, item.quantity)>> \o rest.log]

\* the inventory loop: the map and the lines printed after handling `items`
\* in order, starting from map inv
RECURSIVE inventory_pass(_, _)
inventory_pass(inv, items) ==
    IF items = <<>> THEN [inventory |-> inv, log |-> <<>>]
    ELSE LET item == Head(items)
             stock == get_stock(inv, item.sku)
             warning ==
                IF LowStock(stock, item.quantity)
                THEN <<Line("WARN", <<"Low stock", item.sku, stock, item.quantity>>)>>
                ELSE <<>>
             reserved == <<reserve_log(inv, item.sku, item.quantity)>>
             rest == inventory_pass(reserve(inv, item.sku, item.quantity), Tail(items))
         IN  [inventory |-> rest.inventory,
              log |-> warning \o reserved \o rest.log]

NoLocals ==
    [subtotal |-> 0, tax |-> 0, discount |-> 0, loyalty_points |-> 0, final_total |-> 0]

\* process_order after validation succeeded
process_valid(inv, cfg, order, cust) ==
    LET pass == inventory_pass(inv, order.items)
        subtotal == calculate_subtotal(order)
        tax == calculate_tax(cfg, subtotal)
        discount == calculate_discount(cfg, order, cust)
        points == loyalty_points(cfg, subtotal)
        final == final_total(subtotal, tax, discount)
        result == format_result(subtotal, tax, discount, points, final)
    IN  [inventory |-> pass.inventory,
         log |-> <<Line("DEBUG", <<"Order validated", order.order_id>>)>>
                    \o pass.log \o <<Line("INFO", result)>>,
         ret |-> Ok(result),
         locals |-> [subtotal |-> subtotal, tax |-> tax, discount |-> discount,
                     loyalty_points |-> points, final_total |-> final]]

\* process_order that refuses an order with an item the stock cannot cover
process_order_refusing(inv, cfg, order, cust) ==
    LET v == validate_order(cfg, order)
    IN  IF ~v.ok
        THEN [inventory |-> inv, log |-> <<>>, ret |-> v, locals |-> NoLocals]
        ELSE IF \E i \in 1..Len(order.items) :
                    get_stock(inv, order.items[i].sku) < order.items[i].quantity
        THEN [inventory |-> inv, log |-> <<>>,
              ret |-> Err(<<"Insufficient stock">>), locals |-> NoLocals]
        ELSE process_valid(inv, cfg, order, cust)

process_order(inv, cfg, order, cust) ==
    LET v == validate_order(cfg, order)
    IN  IF ~v.ok
        THEN [inventory |-> inv, log |-> <<>>, ret |-> v, locals |-> NoLocals]
        ELSE process_valid(inv, cfg, order, cust)

----------------------------------------------------------------------------
(* State machine *)

NoOrder == Order("", "", <<>>)

\* customer: the Customer value as it was when the call was made
Call(op, order, cust, sku, quantity) ==
    [op |-> op, order |-> order, customer |-> cust, sku |-> sku, quantity |-> quantity]

\* configurations of the order-flow specification: main()'s, and the same
\* with a maximum small enough for drawn orders to exceed
FlowConfigs ==
    {[MainConfig EXCEPT !.max_order_items = m] : m \in {1, 100}}

\* configurations of the pricing specification
PricingConfigs ==
    {[region |-> r, enable_discounts |-> d, enable_loyalty_points |-> l,
      max_order_items |-> 100, discount_threshold |-> t] :
        r \in {"us-west-2", "us-east-1", "US-WEST-2"}, d \in BOOLEAN, l \in BOOLEAN,
        t \in {Cents(10000), Cents(25000)}}

Customers ==
    {[loyalty_tier |-> t, loyalty_points |-> p] : t \in Tiers, p \in {0, 5420}}

InitWith(cfgs, custs) ==
    /\ config \in cfgs
    /\ customer \in custs
    /\ inventory = InitialInventory
    /\ log = <<>>
    /\ ret = Ok(<<>>)
    /\ locals = NoLocals
    /\ call = Call("new", NoOrder, customer, "", 0)
    /\ prevInventory = InitialInventory

Init == InitWith(FlowConfigs, {MainCustomer})

InitPricing == InitWith(PricingConfigs, Customers)

\* order_service.process_order(&order, &customer)
ProcessOrder(order) ==
    \E out \in {process_order(inventory, config, order, customer)} :
        /\ inventory' = out.inventory
        /\ log' = out.log
        /\ ret' = out.ret
        /\ locals' = out.locals
        /\ call' = Call("process_order", order, customer, "", 0)
        /\ prevInventory' = inventory
        /\ UNCHANGED <<config, customer>>

\* inventory.reserve(sku, quantity, &logger) called on its own
Reserve(sku, quantity) ==
    /\ inventory' = reserve(inventory, sku, quantity)
    /\ log' = <<reserve_log(inventory, sku, quantity)>>
    /\ call' = Call("reserve", NoOrder, customer, sku, quantity)
    /\ prevInventory' = inventory
    /\ UNCHANGED <<config, customer, ret, locals>>

ReserveQuantities == {7}

Next == \E order \in Orders : ProcessOrder(order)

NextInventory ==
    \/ \E order \in ValidOrders : ProcessOrder(order)
    \/ \E sku \in SKUS, quantity \in ReserveQuantities : Reserve(sku, quantity)

NextPricing == \E order \in PricedOrders : ProcessOrder(order)

Spec == Init /\ [][Next]_vars

SpecInventory == Init /\ [][NextInventory]_vars

SpecPricing == InitPricing /\ [][NextPricing]_vars

----------------------------------------------------------------------------
(* Properties *)

IsProcessOrder == call.op = "process_order"

Succeeded == IsProcessOrder /\ ret.ok

Max0(x) == IF x > 0 THEN x ELSE 0

\* quantity the first n items of a list ask of one SKU
RECURSIVE QuantityOf(_, _, _)
QuantityOf(items, n, sku) ==
    IF n = 0 THEN 0
    ELSE QuantityOf(items, n - 1, sku)
            + (IF items[n].sku = sku THEN items[n].quantity ELSE 0)

SkusOf(items) == {items[i].sku : i \in 1..Len(items)}

\* C1: an order with an empty order_id, an empty customer_name or no items
\* is refused with a ValidationError, whatever the inventory; the stock of
\* every SKU is what it was before the call and no line is logged.
C1_InvalidOrderRefusedSilently ==
    (IsProcessOrder /\ (\/ call.order.order_id = ""
                        \/ call.order.customer_name = ""
                        \/ call.order.items = <<>>))
        => /\ ~ret.ok
           /\ ret.err \in {<<"Order ID is required">>,
                           <<"Customer name is required">>,
                           <<"Order must have at least one item">>}
           /\ inventory = prevInventory
           /\ \A sku \in SKUS : get_stock(inventory, sku) = get_stock(prevInventory, sku)
           /\ log = <<>>

\* an order with items but no customer name is refused after earlier
\* orders have already depleted the stock
C1_Witness ==
    /\ IsProcessOrder
    /\ call.order.customer_name = ""
    /\ call.order.order_id # ""
    /\ call.order.items # <<>>
    /\ ~ret.ok
    /\ prevInventory # InitialInventory

\* C2 as claimed: every order with more items than max_order_items fails
\* with the message that names the configured maximum.
C2_AsClaimed ==
    (IsProcessOrder /\ Len(call.order.items) > config.max_order_items)
        => /\ ~ret.ok
           /\ ret.err = <<"Order exceeds max items (", config.max_order_items, ")">>

\* C2 amended: every order with more items than max_order_items fails with
\* a ValidationError; the message names the configured maximum when the
\* order_id and the customer_name are not empty, and is the message of the
\* order_id check or of the customer_name check, which run first, otherwise.
C2_OverMaxRefused ==
    (IsProcessOrder /\ Len(call.order.items) > config.max_order_items)
        => /\ ~ret.ok
           /\ (call.order.order_id # "" /\ call.order.customer_name # "")
                => ret.err = <<"Order exceeds max items (", config.max_order_items, ")">>
           /\ call.order.order_id = "" => ret.err = <<"Order ID is required">>
           /\ (call.order.order_id # "" /\ call.order.customer_name = "")
                => ret.err = <<"Customer name is required">>

\* an order with an id, a name and more items than the maximum was refused
C2_Witness ==
    /\ IsProcessOrder
    /\ call.order.order_id # ""
    /\ call.order.customer_name # ""
    /\ Len(call.order.items) > config.max_order_items
    /\ ret = Err(<<"Order exceeds max items (", config.max_order_items, ")">>)

\* C5: after any sequence of reserve and process_order calls the stock of
\* every SKU, an absent SKU read as 0, lies between 0 and its initial stock;
\* reserve(sku, q) sets the stock of sku to max(current - q, 0) and leaves
\* the stock of every other SKU as it was.
C5_StockBounded ==
    /\ \A sku \in SKUS :
            /\ get_stock(inventory, sku) >= 0
            /\ get_stock(inventory, sku) <= get_stock(InitialInventory, sku)
    /\ call.op = "reserve"
        => /\ get_stock(inventory, call.sku)
                = Max0(get_stock(prevInventory, call.sku) - call.quantity)
           /\ \A sku \in SKUS \ {call.sku} :
                get_stock(inventory, sku) = get_stock(prevInventory, sku)

\* reserve asked for more than a positive stock held and left 0
C5_Witness ==
    /\ call.op = "reserve"
    /\ get_stock(prevInventory, call.sku) > 0
    /\ call.quantity > get_stock(prevInventory, call.sku)
    /\ get_stock(inventory, call.sku) = 0
    /\ prevInventory # InitialInventory

\* the step of C3
C3_Step ==
    /\ \A sku \in SKUS : get_stock(inventory', sku) <= get_stock(inventory, sku)
    /\ (Succeeded /\ call'.op = "process_order" /\ ret'.ok)
        => \A sku \in SkusOf(call.order.items) \cap SkusOf(call'.order.items) :
                get_stock(inventory', sku)
                    = Max0(get_stock(inventory, sku)
                            - QuantityOf(call'.order.items, Len(call'.order.items), sku))

\* C3: reservations persist across process_order calls on one OrderService:
\* when a successful call follows a successful call and both reserve a SKU,
\* its stock is the stock the first call left minus the quantity of the
\* second, floored at zero; and no call, successful or refused, raises the
\* stock of any SKU.
C3_ReservationsAccumulate == [][C3_Step]_vars

\* a successful call found a SKU it reserves already reduced by an earlier
\* call (only process_order changes the map here) and reduced it further,
\* to a stock still above zero
C3_Witness ==
    /\ Succeeded
    /\ \E sku \in SkusOf(call.order.items) :
            /\ get_stock(prevInventory, sku) < get_stock(InitialInventory, sku)
            /\ get_stock(inventory, sku) > 0
            /\ get_stock(inventory, sku) < get_stock(prevInventory, sku)

\* is line l the debug line of a reservation
IsReserved(l) == l.level = "DEBUG" /\ l.message[1] = "Reserved"

\* position in the log of the i-th reservation line
ReservedPos(i) ==
    CHOOSE k \in 1..Len(log) :
        /\ IsReserved(log[k])
        /\ Cardinality({j \in 1..k : IsReserved(log[j])}) = i

\* stock of the SKU of item i once the calls before this one and the items
\* before item i have been reserved
StockBefore(i) ==
    LET items == call.order.items
    IN  Max0(get_stock(prevInventory, items[i].sku)
                - QuantityOf(items, i - 1, items[i].sku))

\* C4: whenever the quantity of an item exceeds the current stock of its
\* SKU, a WARN line for that SKU is logged right before the line of its
\* reservation, the reservation happens, and the stock of the SKU is 0 from
\* then on.
C4_ShortItemWarnedThenReserved ==
    Succeeded =>
        \A i \in 1..Len(call.order.items) :
            LET item == call.order.items[i]
            IN  item.quantity > StockBefore(i)
                    => /\ Cardinality({k \in 1..Len(log) : IsReserved(log[k])}) >= i
                       /\ ReservedPos(i) > 1
                       /\ log[ReservedPos(i) - 1]
                            = Line("WARN", <<"Low stock", item.sku, StockBefore(i),
                                             item.quantity>>)
                       /\ log[ReservedPos(i)]
                            = Line("DEBUG", <<"Reserved", item.quantity, item.sku, 0>>)
                       /\ get_stock(inventory, item.sku) = 0

\* an item asked for more than a positive stock held
C4_Witness ==
    /\ Succeeded
    /\ \E i \in 1..Len(call.order.items) :
            /\ StockBefore(i) > 0
            /\ call.order.items[i].quantity > StockBefore(i)
            /\ get_stock(inventory, call.order.items[i].sku) = 0

\* the lines of WARN level in the log
WarnLines == {k \in 1..Len(log) : log[k].level = "WARN"}

\* C10: a successful process_order handles the items in input order and
\* reserves each exactly once, all before the result is produced; a WARN
\* line is logged for an item exactly when the stock left by the earlier
\* calls and the earlier items of this call is less than its quantity, also
\* when a SKU occurs more than once in the order.
C10_ItemsInOrderOnceEach ==
    Succeeded =>
        LET items == call.order.items
            n == Len(items)
        IN  /\ Cardinality({k \in 1..Len(log) : IsReserved(log[k])}) = n
            /\ \A i \in 1..n :
                /\ log[ReservedPos(i)] =
                        Line("DEBUG", <<"Reserved", items[i].quantity, items[i].sku,
                                        Max0(StockBefore(i) - items[i].quantity)>>)
                /\ (log[ReservedPos(i) - 1].level = "WARN")
                        <=> (StockBefore(i) < items[i].quantity)
            /\ Cardinality(WarnLines)
                    = Cardinality({i \in 1..n : StockBefore(i) < items[i].quantity})
            /\ \A k \in WarnLines : k < Len(log) /\ IsReserved(log[k + 1])
            /\ Len(log) = n + 2 + Cardinality(WarnLines)
            /\ log[1] = Line("DEBUG", <<"Order validated", call.order.order_id>>)
            /\ log[Len(log)] = Line("INFO", ret.value)
            /\ \A sku \in SKUS :
                    get_stock(inventory, sku)
                        = Max0(get_stock(prevInventory, sku) - QuantityOf(items, n, sku))

\* an order names one SKU twice: the first item is covered by the stock,
\* the second is not
C10_Witness ==
    /\ Succeeded
    /\ Len(call.order.items) >= 2
    /\ call.order.items[1].sku = call.order.items[2].sku
    /\ StockBefore(1) >= call.order.items[1].quantity
    /\ StockBefore(2) < call.order.items[2].quantity
    /\ Cardinality(WarnLines) = 1

\* the subtotal of the order of the most recent call: the sum over its
\* items of quantity * unit_price
OrderSubtotal ==
    LET items == call.order.items
        Sum[n \in 0..Len(items)] ==
            IF n = 0 THEN 0 ELSE Sum[n - 1] + items[n].quantity * items[n].unit_price
    IN  Sum[Len(items)]

\* the percentage the reference rule of C6 gives a tier
TierPercent == [Platinum |-> 15, Gold |-> 10, Silver |-> 5, Bronze |-> 0]

\* C6: calculate_discount follows the three-way rule: 0 when
\* enable_discounts is false; 0 when the subtotal is strictly below
\* discount_threshold, Platinum included; otherwise, a subtotal equal to the
\* threshold included, the subtotal times 0.15, 0.10, 0.05 or 0.0 for
\* Platinum, Gold, Silver or Bronze.
C6_DiscountRule ==
    Succeeded =>
        /\ ~config.enable_discounts => locals.discount = 0
        /\ OrderSubtotal < config.discount_threshold => locals.discount = 0
        /\ (config.enable_discounts /\ OrderSubtotal >= config.discount_threshold)
            => locals.discount * 100
                    = OrderSubtotal * TierPercent[call.customer.loyalty_tier]

\* a Platinum customer's order whose subtotal equals the threshold got 15 %
C6_Witness ==
    /\ Succeeded
    /\ config.enable_discounts
    /\ OrderSubtotal = config.discount_threshold
    /\ call.customer.loyalty_tier = "Platinum"
    /\ locals.discount * 100 = OrderSubtotal * 15
    /\ locals.discount > 0

\* C7: for an order that passes validation the final total is
\* subtotal + tax - discount, the tax being 8 % of the full subtotal when the
\* region is exactly "us-west-2" and 10 % of it for any other region, never
\* a share of the discounted amount; the result string reports that total.
C7_FinalTotal ==
    Succeeded =>
        LET tax == IF config.region = "us-west-2"
                   THEN (OrderSubtotal * 8) \div 100
                   ELSE (OrderSubtotal * 10) \div 100
        IN  /\ locals.subtotal = OrderSubtotal
            /\ locals.tax = tax
            /\ locals.tax * 100 \in {OrderSubtotal * 8, OrderSubtotal * 10}
            /\ locals.final_total = OrderSubtotal + tax - locals.discount
            /\ ret.value[10] = Fmt2(OrderSubtotal + tax - locals.discount)
            /\ ret.value[4] = Fmt2(tax)

\* an order outside us-west-2 was taxed 10 % of the full subtotal although
\* a discount applied
C7_Witness ==
    /\ Succeeded
    /\ config.region # "us-west-2"
    /\ locals.discount > 0
    /\ locals.tax * 10 = OrderSubtotal
    /\ locals.final_total = OrderSubtotal + locals.tax - locals.discount

\* floor(subtotal * 10), the subtotal taken in dollars
FloorTimes10 == (OrderSubtotal * 10) \div 10000

OtherInventories ==
    {InitialInventory, <<>>, [sku \in SKUS |-> 0]}

\* C9: inventory never influences the outcome of process_order: an order
\* with an id, a customer name and between 1 and max_order_items items
\* succeeds whatever the stock, also when every item is short or unknown,
\* and the same order, customer and configuration run against another
\* inventory return the same result.
C9_InventoryNeverDecides ==
    IsProcessOrder =>
        /\ (/\ call.order.order_id # ""
            /\ call.order.customer_name # ""
            /\ Len(call.order.items) >= 1
            /\ Len(call.order.items) <= config.max_order_items)
                => ret.ok /\ ret.value[1] = "Processed - Subtotal: $"
        /\ \A inv \in OtherInventories :
                process_order(inv, config, call.order, call.customer).ret = ret

\* an order succeeded although every item of it was short
C9_Witness ==
    /\ Succeeded
    /\ Len(call.order.items) >= 2
    /\ \A i \in 1..Len(call.order.items) :
            StockBefore(i) < call.order.items[i].quantity
    /\ \E sku \in SkusOf(call.order.items) : sku \notin DOMAIN prevInventory
    /\ prevInventory # InitialInventory

====
